---- MODULE Spec2Model ----
(***************************************************************************)
(* A model of the approximate-near-neighbour indices of the repository:    *)
(*   checks.rs                          check_input                        *)
(*   utils.rs                           dot product, get_threshold         *)
(*   simple_data_structures/top1.rs     Top1 (argmax assignment)           *)
(*   simple_data_structures/close_top1.rs  CloseTop1 (corridor assignment) *)
(*   simple_data_structures/query.rs    query / search / find_close_vector *)
(*   tensor_data_structures/top1.rs     base index of the tensor index     *)
(*   tensor_data_structures/tensor_top1.rs, query.rs   TensorTop1          *)
(*                                                                         *)
(* Numbers.  An f64 is modelled as a fixed-point integer: a coordinate x   *)
(* stands for x / Scale, a product of two coordinates (an inner product, a *)
(* squared norm) stands for x / One with One = Scale * Scale.  The three   *)
(* non-finite f64 values the code can produce are kept: NaN, PosInf and    *)
(* NegInf, with the IEEE-754 rules for arithmetic and for comparison       *)
(* (every ordered comparison with NaN is false).                           *)
(***************************************************************************)
EXTENDS Integers, Sequences, FiniteSets, TLC

\* ------------------------------------------------------------------ f64

Scale == 10 * 10 * 10
One == Scale * Scale

PosInf == One * Scale
NegInf == 0 - PosInf
NaN == PosInf + 1

IsNaN(x) == x = NaN
IsInf(x) == x = PosInf \/ x = NegInf
IsFinite(x) == ~IsNaN(x) /\ ~IsInf(x)

\* Ordered comparisons of f64: false as soon as one side is NaN.
FGe(x, y) == ~IsNaN(x) /\ ~IsNaN(y) /\ x >= y
FGt(x, y) == ~IsNaN(x) /\ ~IsNaN(y) /\ x > y
FLe(x, y) == ~IsNaN(x) /\ ~IsNaN(y) /\ x <= y
FLt(x, y) == ~IsNaN(x) /\ ~IsNaN(y) /\ x < y

FNeg(x) == IF IsNaN(x) THEN NaN ELSE 0 - x

FAbs(x) == IF IsNaN(x) THEN NaN ELSE IF x < 0 THEN 0 - x ELSE x

FAdd(x, y) ==
    IF IsNaN(x) \/ IsNaN(y) THEN NaN
    ELSE IF IsInf(x) /\ IsInf(y) THEN (IF x = y THEN x ELSE NaN)
    ELSE IF IsInf(x) THEN x
    ELSE IF IsInf(y) THEN y
    ELSE x + y

FSub(x, y) == FAdd(x, FNeg(y))

Sign(x) == IF x > 0 THEN 1 ELSE IF x < 0 THEN 0 - 1 ELSE 0

\* x * y with no rescaling: coordinates in, product units out.
FMul(x, y) ==
    IF IsNaN(x) \/ IsNaN(y) THEN NaN
    ELSE IF IsInf(x) \/ IsInf(y)
         THEN (IF x = 0 \/ y = 0 THEN NaN
               ELSE IF Sign(x) * Sign(y) > 0 THEN PosInf ELSE NegInf)
    ELSE x * y

\* x * y of two coordinate-scaled numbers, as a coordinate-scaled number.
FMulS(x, y) ==
    IF IsFinite(x) /\ IsFinite(y) THEN (x * y) \div Scale ELSE FMul(x, y)

\* x / y of two coordinate-scaled numbers, as a coordinate-scaled number.
FDivS(x, y) ==
    IF IsNaN(x) \/ IsNaN(y) THEN NaN
    ELSE IF IsInf(x) /\ IsInf(y) THEN NaN
    ELSE IF IsInf(x) THEN (IF Sign(x) * (IF y < 0 THEN 0 - 1 ELSE 1) > 0
                           THEN PosInf ELSE NegInf)
    ELSE IF IsInf(y) THEN 0
    ELSE IF y = 0 THEN (IF x = 0 THEN NaN
                        ELSE IF x > 0 THEN PosInf ELSE NegInf)
    ELSE (x * Scale) \div y

RECURSIVE ISqrtBetween(_, _, _)
\* The integer r in lo..hi with r * r <= x < (r + 1) * (r + 1), by bisection.
ISqrtBetween(x, lo, hi) ==
    IF lo >= hi THEN lo
    ELSE LET mid == (lo + hi + 1) \div 2
         IN IF mid * mid <= x THEN ISqrtBetween(x, mid, hi)
            ELSE ISqrtBetween(x, lo, mid - 1)

\* f64::sqrt of a coordinate-scaled number: NaN below zero.
FSqrtS(x) ==
    IF IsNaN(x) THEN NaN
    ELSE IF x = PosInf THEN PosInf
    ELSE IF x < 0 THEN NaN
    ELSE ISqrtBetween(x * Scale, 0, 40 * Scale)

\* f64::ln of the integers the model reaches, coordinate-scaled (ln 0 = -inf).
LnTable == <<0, 693, 1099, 1386, 1609, 1792, 1946, 2079, 2197, 2303>>
Ln(k) == IF k = 0 THEN NegInf ELSE LnTable[k]

\* ln(ln k), coordinate-scaled: ln 1 = 0 and ln 0 = -inf; ln 2 < 1.
LnLnTable == <<NegInf, 0 - 367, 94, 327, 476, 583, 666, 732, 787, 834>>
LnLn(k) == IF k = 0 THEN NaN ELSE LnLnTable[k]

\* ln(k)^(1/8), coordinate-scaled (tensor_top1.rs:27): 0 for k = 1, and for
\* k = 0 (-inf).powf(0.125) = +inf.
LnRoot8Table == <<0, 955, 1012, 1042, 1061, 1076, 1087, 1096, 1103, 1110>>
LnRoot8(k) == IF k = 0 THEN PosInf ELSE LnRoot8Table[k]

\* ------------------------------------------------------------- vectors

Min(a, b) == IF a <= b THEN a ELSE b

RECURSIVE DotFrom(_, _, _)
DotFrom(vec1, vec2, i) ==
    IF i > Min(Len(vec1), Len(vec2)) THEN 0
    ELSE FAdd(FMul(vec1[i], vec2[i]), DotFrom(vec1, vec2, i + 1))

\* An inner product that is no number for vectors of different lengths.
dot_product_of_equal_lengths(vec1, vec2) ==
    IF Len(vec1) # Len(vec2) THEN NaN ELSE DotFrom(vec1, vec2, 1)

\* zip().map(a * b).sum(): the sum runs over the common prefix only.
dot_product(vec1, vec2) == DotFrom(vec1, vec2, 1)

\* vector.iter().map(|x| x * x).sum()
NormSq(vector) == dot_product(vector, vector)

\* 1e-6 in product units.
Tol == One \div 1000000

\* An is_normalized with no tolerance.
is_normalized_exact(vector) == NormSq(vector) = One

is_normalized(vector) == FLe(FAbs(FSub(NormSq(vector), One)), Tol)

\* ------------------------------------------------------------ checks.rs

\* The values of Result<(), String>: the message's variable parts are kept.
Ok == [kind |-> "Ok", index |-> 0 - 1, norm |-> 0]
Err(kind, index, norm) == [kind |-> kind, index |-> index, norm |-> norm]

RECURSIVE CheckVectors(_, _, _)
\* The loop of check_input over data[i..], i counted from 1 here and from 0
\* in the message: first the dimension of a vector, then its norm.
CheckVectors(data, d, i) ==
    IF i > Len(data) THEN Ok
    ELSE IF Len(data[i]) # d THEN Err("DimensionMismatch", i - 1, 0)
    ELSE LET norm == NormSq(data[i])
         IN IF FGt(FAbs(FSub(norm, One)), Tol)
            THEN Err("UnnormalizedVector", i - 1, norm)
            ELSE CheckVectors(data, d, i + 1)

check_input(data, alpha, beta, theta) ==
    IF ~(FLt(0, alpha) /\ FLt(alpha, Scale)) THEN Err("InvalidAlpha", 0 - 1, 0)
    ELSE IF ~(FLt(0, beta) /\ FLt(beta, alpha)) THEN Err("InvalidBeta", 0 - 1, 0)
    ELSE IF ~FGt(theta, 0) THEN Err("InvalidTheta", 0 - 1, 0)
    ELSE IF Len(data) = 0 THEN Err("EmptyDataset", 0 - 1, 0)
    ELSE IF Len(data[1]) = 0 THEN Err("ZeroDimension", 0 - 1, 0)
    ELSE CheckVectors(data, Len(data[1]), 1)

\* ------------------------------------------------- derived parameters

RECURSIVE GCD(_, _)
GCD(a, b) == IF b = 0 THEN a ELSE GCD(b, a % b)

RECURSIVE IPow(_, _)
IPow(b, e) == IF e = 0 THEN 1 ELSE b * IPow(b, e - 1)

RECURSIVE LeastRoot(_, _, _)
\* The least k >= from with k^q >= target.
LeastRoot(target, q, from) ==
    IF IPow(from, q) >= target THEN from ELSE LeastRoot(target, q, from + 1)

\* 1 - alpha^2, in product units.
OneMinusAlphaSq(alpha) == FSub(One, FMul(alpha, alpha))

\* (n as f64).pow(theta / (1. - alpha.powf(2.))).ceil() as usize, for n >= 1
\* and finite alpha, theta with alpha^2 # 1: the exponent is the rational
\* theta * Scale / (One - alpha^2); n^e is in (0, 1] when e <= 0, and for
\* e = p / q > 0 the ceiling of n^e is the least k with k^q >= n^p.
NumDirections(n, alpha, theta) ==
    LET num == theta * Scale
        den == OneMinusAlphaSq(alpha)
        neg == (num < 0) # (den < 0)
        g == GCD(FAbs(num), FAbs(den))
    IN IF num = 0 \/ neg THEN 1
       ELSE LET p == FAbs(num) \div g
                q == FAbs(den) \div g
            IN IF q = 1 THEN IPow(n, p) ELSE LeastRoot(IPow(n, p), q, 1)

\* x.ceil() as usize for the quotient a / b of two integers, b # 0: the
\* conversion saturates, so a negative quotient gives 0.
CeilQuotToUsize(a, b) ==
    IF a = 0 \/ ((a < 0) # (b < 0)) THEN 0
    ELSE (FAbs(a) + FAbs(b) - 1) \div FAbs(b)

\* The number t of Top1 structures of a TensorTop1 over n >= 1 points.
NumStructures(n, alpha, fast_preprocessing) ==
    IF fast_preprocessing
    THEN CeilQuotToUsize(LnRoot8(n) * Scale, OneMinusAlphaSq(alpha))
    ELSE CeilQuotToUsize(One, OneMinusAlphaSq(alpha))

\* A coordinate-scaled number in product units.
ToProduct(x) == IF IsFinite(x) THEN x * Scale ELSE x

\* alpha * sqrt(2 ln m) - sqrt(2 (1 - alpha^2) ln(ln m)), in product units.
get_threshold(alpha, m) ==
    LET first_term == FMulS(alpha, FSqrtS(FMulS(2 * Scale, Ln(m))))
        second_term == FNeg(FSqrtS(FMulS(
                           FMulS(2 * Scale, OneMinusAlphaSq(alpha) \div Scale),
                           LnLn(m))))
    IN ToProduct(FAdd(first_term, second_term))

\* The corridor of CloseTop1 for m directions, in product units.
right_bound(m) == ToProduct(FSqrtS(FMulS(2 * Scale, Ln(m))))
left_bound(m) ==
    LET root == FSqrtS(FMulS(2 * Scale, Ln(m)))
    IN ToProduct(FSub(root, FMulS((3 * Scale) \div 2, FDivS(LnLn(m), root))))

\* ------------------------------------------------------- bucket tables

\* A HashMap<K, Vec<Vec<f64>>> is a function from the keys present to the
\* vectors pushed under each, in push order.
EmptyTable == << >>

\* table.entry(key).or_insert_with(Vec::new).push(vector)
Insert(table, key, vector) ==
    IF key \in DOMAIN table
    THEN [table EXCEPT ![key] = Append(@, vector)]
    ELSE (key :> <<vector>>) @@ table

\* f64::MIN, the most negative finite f64.
F64_MIN == NegInf + 1

RECURSIVE ArgmaxFrom(_, _, _, _, _)
\* The inner loop of the simple get_hash_table from direction j (counted
\* from 1 here, labelled j - 1): a strict > keeps the earliest maximum.
ArgmaxFrom(data_vector, gaussian_vectors, j, max_dot_product, max_index) ==
    IF j > Len(gaussian_vectors) THEN max_index
    ELSE LET value == dot_product(data_vector, gaussian_vectors[j])
         IN IF FGt(value, max_dot_product)
            THEN ArgmaxFrom(data_vector, gaussian_vectors, j + 1, value, j - 1)
            ELSE ArgmaxFrom(data_vector, gaussian_vectors, j + 1,
                            max_dot_product, max_index)

RECURSIVE ArgmaxLastFrom(_, _, _, _, _)
\* The inner loop with >= for >: the latest maximum is kept.
ArgmaxLastFrom(data_vector, gaussian_vectors, j, max_dot_product, max_index) ==
    IF j > Len(gaussian_vectors) THEN max_index
    ELSE LET value == dot_product(data_vector, gaussian_vectors[j])
         IN IF FGe(value, max_dot_product)
            THEN ArgmaxLastFrom(data_vector, gaussian_vectors, j + 1, value,
                                j - 1)
            ELSE ArgmaxLastFrom(data_vector, gaussian_vectors, j + 1,
                                max_dot_product, max_index)

max_dot_product_index_last(data_vector, gaussian_vectors) ==
    ArgmaxLastFrom(data_vector, gaussian_vectors, 1, F64_MIN, 0)

max_dot_product_index(data_vector, gaussian_vectors) ==
    ArgmaxFrom(data_vector, gaussian_vectors, 1, F64_MIN, 0)

RECURSIVE ArgmaxTableFrom(_, _, _, _)
ArgmaxTableFrom(data, gaussian_vectors, i, table) ==
    IF i > Len(data) THEN table
    ELSE ArgmaxTableFrom(data, gaussian_vectors, i + 1,
             Insert(table, max_dot_product_index(data[i], gaussian_vectors),
                    data[i]))

\* A table whose buckets keep only the latest vector assigned to them.
get_hash_table_keeping_latest(data, gaussian_vectors) ==
    LET labels == { max_dot_product_index(data[i], gaussian_vectors) :
                        i \in 1..Len(data) }
    IN [key \in labels |->
           LET last == CHOOSE i \in 1..Len(data) :
                   /\ max_dot_product_index(data[i], gaussian_vectors) = key
                   /\ \A k \in (i + 1)..Len(data) :
                          max_dot_product_index(data[k], gaussian_vectors) # key
           IN <<data[last]>>]

\* simple_data_structures/top1.rs get_hash_table
get_hash_table(data, gaussian_vectors) ==
    ArgmaxTableFrom(data, gaussian_vectors, 1, EmptyTable)

RECURSIVE LastInCorridor(_, _, _, _, _)
\* The inner loop with the break forgotten, the last matching label kept.
LastInCorridor(data_vector, gaussian_vectors, j, left, right) ==
    IF j > Len(gaussian_vectors) THEN 0 - 1
    ELSE LET value == dot_product(data_vector, gaussian_vectors[j])
             later == LastInCorridor(data_vector, gaussian_vectors, j + 1,
                                     left, right)
         IN IF later >= 0 THEN later
            ELSE IF FGe(value, left) /\ FLe(value, right) THEN j - 1
            ELSE 0 - 1

RECURSIVE FirstInCorridor(_, _, _, _, _)
\* The inner loop of the CloseTop1 get_hash_table: the label of the first
\* direction with left <= dot <= right, or -1 when the loop ends unbroken.
FirstInCorridor(data_vector, gaussian_vectors, j, left, right) ==
    IF j > Len(gaussian_vectors) THEN 0 - 1
    ELSE LET value == dot_product(data_vector, gaussian_vectors[j])
         IN IF FGe(value, left) /\ FLe(value, right) THEN j - 1
            ELSE FirstInCorridor(data_vector, gaussian_vectors, j + 1,
                                 left, right)

RECURSIVE CorridorTableFrom(_, _, _, _)
CorridorTableFrom(data, gaussian_vectors, i, table) ==
    IF i > Len(data) THEN table
    ELSE LET m == Len(gaussian_vectors)
             label == FirstInCorridor(data[i], gaussian_vectors, 1,
                                      left_bound(m), right_bound(m))
         IN CorridorTableFrom(data, gaussian_vectors, i + 1,
                IF label < 0 THEN table ELSE Insert(table, label, data[i]))

\* simple_data_structures/close_top1.rs get_hash_table
close_get_hash_table(data, gaussian_vectors) ==
    CorridorTableFrom(data, gaussian_vectors, 1, EmptyTable)

\* ------------------------------------- simple_data_structures/query.rs

RECURSIVE SearchFrom(_, _, _, _)
SearchFrom(gaussian_vectors, q, threshold, j) ==
    IF j > Len(gaussian_vectors) THEN << >>
    ELSE LET rest == SearchFrom(gaussian_vectors, q, threshold, j + 1)
         IN IF FGe(dot_product(q, gaussian_vectors[j]), threshold)
            THEN <<j - 1>> \o rest
            ELSE rest

\* A search that stops at the first direction that qualifies.
search_first_only(gaussian_vectors, q, threshold) ==
    LET result == SearchFrom(gaussian_vectors, q, threshold, 1)
    IN [ is_some |-> result # << >>,
         indices |-> IF result = << >> THEN << >> ELSE <<result[1]>> ]

\* Option<Vec<usize>>: None for an empty result.
search(gaussian_vectors, q, threshold) ==
    LET result == SearchFrom(gaussian_vectors, q, threshold, 1)
    IN [is_some |-> result # << >>, indices |-> result]

RECURSIVE FindCloseFrom(_, _, _, _)
FindCloseFrom(q, vectors, beta, k) ==
    IF k > Len(vectors) THEN [is_some |-> FALSE, vector |-> << >>]
    ELSE IF FGe(dot_product(q, vectors[k]), ToProduct(beta))
         THEN [is_some |-> TRUE, vector |-> vectors[k]]
         ELSE FindCloseFrom(q, vectors, beta, k + 1)

\* A find_close_vector that forgets the comparison with beta.
find_close_vector_unchecked(q, vectors, beta) ==
    IF Len(vectors) = 0 THEN [is_some |-> FALSE, vector |-> << >>]
    ELSE [is_some |-> TRUE, vector |-> vectors[1]]

\* Option<Vec<f64>>: the first vector of the bucket that reaches beta.
find_close_vector(q, vectors, beta) == FindCloseFrom(q, vectors, beta, 1)

\* The values of Result<Option<Vec<f64>>, io::Error>.
InvalidQuery == [tag |-> "Err", vector |-> << >>]
NotFound == [tag |-> "None", vector |-> << >>]
Found(vector) == [tag |-> "Some", vector |-> vector]

\* What one call of query did: its return value, whether it ran search, the
\* candidate labels search gave it (for the tensor index also the label list
\* of each Top1 structure) and the keys it looked up in the bucket table, in
\* order.
Outcome(out, searched, probes) ==
    [ out |-> out, searched |-> searched, collection |-> << >>,
      candidates |-> << >>, probes |-> probes ]

\* A scan that gives up after the first candidate's bucket.
ScanFirstCandidateOnly(indices, k, q, hash_table, beta, probes) ==
    IF k > Len(indices) THEN Outcome(NotFound, TRUE, probes)
    ELSE LET i == indices[k]
             close == IF i \in DOMAIN hash_table
                      THEN find_close_vector(q, hash_table[i], beta)
                      ELSE [is_some |-> FALSE, vector |-> << >>]
         IN IF close.is_some
            THEN Outcome(Found(close.vector), TRUE, Append(probes, i))
            ELSE Outcome(NotFound, TRUE, Append(probes, i))

RECURSIVE ScanFrom(_, _, _, _, _, _)
\* The loop `for i in indices` of query, from position k, probes so far given.
ScanFrom(indices, k, q, hash_table, beta, probes) ==
    IF k > Len(indices) THEN Outcome(NotFound, TRUE, probes)
    ELSE LET i == indices[k]
             close == IF i \in DOMAIN hash_table
                      THEN find_close_vector(q, hash_table[i], beta)
                      ELSE [is_some |-> FALSE, vector |-> << >>]
         IN IF close.is_some
            THEN Outcome(Found(close.vector), TRUE, Append(probes, i))
            ELSE ScanFrom(indices, k + 1, q, hash_table, beta,
                          Append(probes, i))

query(gaussian_vectors, q, threshold, hash_table, beta) ==
    IF ~is_normalized(q) THEN Outcome(InvalidQuery, FALSE, << >>)
    ELSE LET found == search(gaussian_vectors, q, threshold)
         IN IF ~found.is_some THEN Outcome(NotFound, TRUE, << >>)
            ELSE [ScanFrom(found.indices, 1, q, hash_table, beta, << >>)
                     EXCEPT !.candidates = found.indices]

\* ------------------------------------------------- top_1.rs, the old Top1

\* Outcomes of the old query, an Option<Vec<f64>>.
LegacyNone == NotFound
LegacySome(vector) == Found(vector)

\* Top1::query of top_1.rs: a query off the unit sphere is reported on stderr
\* and answered None; the test is |norm - 1| > 1e-6, which a NaN norm
\* passes; then the search, and the scan of the candidate buckets.
legacy_query(gaussian_vectors, q, threshold, hash_table, beta) ==
    IF FGt(FAbs(FSub(NormSq(q), One)), Tol)
    THEN Outcome(LegacyNone, FALSE, << >>)
    ELSE LET indices == SearchFrom(gaussian_vectors, q, threshold, 1)
         IN IF indices = << >> THEN Outcome(LegacyNone, TRUE, << >>)
            ELSE [ScanFrom(indices, 1, q, hash_table, beta, << >>)
                     EXCEPT !.candidates = indices]

\* --------------------------------------- tensor_data_structures/top1.rs

Panic == 0 - 1

RECURSIVE MaxByFrom(_, _, _, _, _)
\* Iterator::max_by over (j, dot) from direction j on, the running maximum
\* given: reduce(|x, y| match compare(&x, &y) { Greater => x, _ => y }), so
\* of equal maxima the last wins; partial_cmp(..).unwrap() panics on NaN.
MaxByFrom(point, gaussian_vectors, j, acc_index, acc_value) ==
    IF j > Len(gaussian_vectors) THEN acc_index
    ELSE LET value == dot_product(point, gaussian_vectors[j])
         IN IF IsNaN(acc_value) \/ IsNaN(value) THEN Panic
            ELSE IF acc_value > value
                 THEN MaxByFrom(point, gaussian_vectors, j + 1,
                                acc_index, acc_value)
                 ELSE MaxByFrom(point, gaussian_vectors, j + 1, j - 1, value)

\* Every point matched with the first direction.
closest_index_always_first(point, gaussian_vectors) ==
    IF Len(gaussian_vectors) = 0 THEN Panic ELSE 0

\* The closure of get_match_list for one point; max_by of no direction is
\* None, and its unwrap panics.
closest_index(point, gaussian_vectors) ==
    IF Len(gaussian_vectors) = 0 THEN Panic
    ELSE MaxByFrom(point, gaussian_vectors, 2, 0,
                   dot_product(point, gaussian_vectors[1]))

RECURSIVE MatchListFrom(_, _, _)
MatchListFrom(data, gaussian_vectors, i) ==
    IF i > Len(data) THEN << >>
    ELSE <<closest_index(data[i], gaussian_vectors)>>
         \o MatchListFrom(data, gaussian_vectors, i + 1)

\* data.iter().map(..).collect(): the list, or a panic of one of the closures.
get_match_list(data, gaussian_vectors) ==
    LET list == MatchListFrom(data, gaussian_vectors, 1)
    IN [panicked |-> \E i \in 1..Len(list) : list[i] = Panic, list |-> list]

\* data.par_iter().map(..).collect(): every point has its own slot, filled by
\* the same closure, and collect keeps the slots in data order.
get_match_list_parallel(data, gaussian_vectors) ==
    LET list == [i \in 1..Len(data) |-> closest_index(data[i], gaussian_vectors)]
    IN [panicked |-> \E i \in 1..Len(list) : list[i] = Panic, list |-> list]

\* A String is the sequence of its characters.
Digits == <<"0", "1", "2", "3", "4", "5", "6", "7", "8", "9">>

RECURSIVE ToDecimal(_)
\* The Display form of a usize.
ToDecimal(j) ==
    IF j < 10 THEN <<Digits[j + 1]>>
    ELSE ToDecimal(j \div 10) \o <<Digits[(j % 10) + 1]>>

\* A label without its delimiter.
LabelWithoutDelimiter(j) == ToDecimal(j)

\* format!("{}#", j)
Label(j) == ToDecimal(j) \o <<"#">>

\* A hash that counts the directions from 1.
hash_from_one(top1, i) == Label(top1.match_list[i + 1] + 1)

\* Top1::hash of the tensor base index, i counted from 0.
hash(top1, i) == Label(top1.match_list[i + 1])

RECURSIVE BaseSearchFrom(_, _, _, _)
BaseSearchFrom(gaussian_vectors, q, threshold, j) ==
    IF j > Len(gaussian_vectors) THEN << >>
    ELSE LET rest == BaseSearchFrom(gaussian_vectors, q, threshold, j + 1)
         IN IF FGe(dot_product(q, gaussian_vectors[j]), threshold)
            THEN <<Label(j - 1)>> \o rest
            ELSE rest

\* tensor_data_structures/top1.rs search: the labels "j#" that qualify.
base_search(gaussian_vectors, q, threshold) ==
    BaseSearchFrom(gaussian_vectors, q, threshold, 1)

\* ---------------------- tensor_data_structures/tensor_top1.rs, query.rs

RECURSIVE HashOfPointReversed(_, _, _)
\* The hashes prepended instead of appended: the last structure's first.
HashOfPointReversed(top1_list, i, k) ==
    IF k > Len(top1_list) THEN << >>
    ELSE HashOfPointReversed(top1_list, i, k + 1) \o hash(top1_list[k], i)

RECURSIVE HashOfPoint(_, _, _)
\* The inner loop of the tensor get_hash_table: hash += &top1.hash(i).
HashOfPoint(top1_list, i, k) ==
    IF k > Len(top1_list) THEN << >>
    ELSE hash(top1_list[k], i) \o HashOfPoint(top1_list, i, k + 1)

RECURSIVE TensorTableFrom(_, _, _, _)
TensorTableFrom(data, top1_list, i, table) ==
    IF i > Len(data) THEN table
    ELSE TensorTableFrom(data, top1_list, i + 1,
             Insert(table, HashOfPoint(top1_list, i - 1, 1), data[i]))

tensor_get_hash_table(data, top1_list) ==
    TensorTableFrom(data, top1_list, 1, EmptyTable)

RECURSIVE FlatMapSuffixOuter(_, _, _)
\* The two iterations swapped: every prefix under the first suffix, then
\* every prefix under the next.
FlatMapSuffixOuter(acc, set, a) ==
    IF a > Len(set) THEN << >>
    ELSE [p \in 1..Len(acc) |-> acc[p] \o set[a]]
         \o FlatMapSuffixOuter(acc, set, a + 1)

\* acc.into_iter().flat_map(|prefix| set.iter().map(|suffix| prefix + suffix))
RECURSIVE FlatMapFrom(_, _, _)
FlatMapFrom(acc, set, a) ==
    IF a > Len(acc) THEN << >>
    ELSE [s \in 1..Len(set) |-> acc[a] \o set[s]] \o FlatMapFrom(acc, set, a + 1)

RECURSIVE FoldProduct(_, _, _)
FoldProduct(collection, k, acc) ==
    IF k > Len(collection) THEN acc
    ELSE FoldProduct(collection, k + 1, FlatMapFrom(acc, collection[k], 1))

\* The product without the early return: of no list, the one empty key.
cartesian_product_of_fold_alone(collection) ==
    FoldProduct(collection, 1, << << >> >>)

cartesian_product(collection) ==
    IF Len(collection) = 0 THEN << >>
    ELSE FoldProduct(collection, 1, << << >> >>)

\* The collection of tensor search: one label list per Top1 structure.
Collection(top1_list, q) ==
    [k \in 1..Len(top1_list) |->
        base_search(top1_list[k].gaussian_vectors, q, top1_list[k].threshold)]

\* A search that leaves the structures without a candidate out of the
\* product.
tensor_search_skipping_empty(top1_list, q) ==
    cartesian_product(SelectSeq(Collection(top1_list, q),
                                LAMBDA labels : labels # << >>))

tensor_search(top1_list, q) == cartesian_product(Collection(top1_list, q))

\* A query that probes the first composite key only.
tensor_query_first_key_only(q, top1_list, hash_table, beta) ==
    IF ~is_normalized(q) THEN Outcome(InvalidQuery, FALSE, << >>)
    ELSE LET indices == tensor_search(top1_list, q)
             scanned == IF indices = << >> THEN Outcome(NotFound, TRUE, << >>)
                        ELSE ScanFirstCandidateOnly(indices, 1, q, hash_table,
                                                    beta, << >>)
         IN [scanned EXCEPT !.candidates = indices,
                            !.collection = Collection(top1_list, q)]

tensor_query(q, top1_list, hash_table, beta) ==
    IF ~is_normalized(q) THEN Outcome(InvalidQuery, FALSE, << >>)
    ELSE LET indices == tensor_search(top1_list, q)
             scanned == IF indices = << >> THEN Outcome(NotFound, TRUE, << >>)
                        ELSE ScanFrom(indices, 1, q, hash_table, beta, << >>)
         IN [scanned EXCEPT !.candidates = indices,
                            !.collection = Collection(top1_list, q)]

\* ------------------------------------------------------------- bounds

\* The largest dataset built, and the most directions one index draws.
MaxN == 3
MaxDirs == 6

\* The unit vectors datasets are made of, and the datasets check_input rejects
\* or should reject: empty, not normalized, of mixed dimension, of dimension
\* zero, with a NaN coordinate.
UnitVectors == {<<1000, 0>>, <<0, 1000>>, <<600, 800>>}
ValidDatasets == UNION {[1..n -> UnitVectors] : n \in 1..MaxN}
OddDatasets ==
    { << >>,
      << <<2000, 0>> >>,
      << <<1000, 0>>, <<1000>> >>,
      << << >> >>,
      << <<NaN, 0>>, <<1000, 0>> >>,
      << <<1000, 1>>, <<0, 1000>> >> }
Datasets == ValidDatasets \cup OddDatasets

\* (alpha, beta, theta), coordinate-scaled: two valid choices, then alpha,
\* beta and theta out of range in turn.
Parameters ==
    { <<500, 400, 750>>, <<500, 400, 1500>>,
      <<1200, 400, 750>>, <<500, 600, 750>>, <<500, 400, 0>> }

\* The values a draw of Gaussian directions takes here, cut to dimension d.
DirectionVectors == {<<1400, 0>>, <<1000, 1000>>}
Directions(m, d) == [1..m -> {SubSeq(v, 1, Min(d, Len(v))) : v \in DirectionVectors}]

\* Queries: unit vectors, one within the tolerance, one of another dimension,
\* and two that are not normalized (too long, NaN).
Queries ==
    { <<0, 1000>>, <<600, 800>>, <<1000, 1>>, <<1000>>,
      <<2000, 0>>, <<NaN, 0>> }

Kinds == {"Top1", "CloseTop1", "TensorTop1"}

\* -------------------------------------------------------------- state

VARIABLES
    kind,                \* which index the caller constructs
    data, alpha, beta, theta, fast_preprocessing,   \* the constructor's arguments
    pc,                  \* "start", "built" or "panicked"
    validation,          \* what check_input returned to the constructor
    gaussian_vectors, hash_table, threshold,        \* fields of Top1 / CloseTop1
    top1_list, tensor_hash_table,                   \* fields of TensorTop1
    last_query, outcome, \* the last query and what it did
    asked,               \* the queries answered so far, with their outcomes
    readers,             \* the queries in progress, one per thread
    slots                \* the per-point results of the parallel workers

vars ==
    << kind, data, alpha, beta, theta, fast_preprocessing, pc, validation,
       gaussian_vectors, hash_table, threshold, top1_list, tensor_hash_table,
       last_query, outcome, asked, readers, slots >>

inputs == << kind, data, alpha, beta, theta, fast_preprocessing >>
simple_fields == << gaussian_vectors, hash_table, threshold >>
tensor_fields == << top1_list, tensor_hash_table >>
query_vars == << last_query, outcome >>
threads == << asked, readers, slots >>

\* No query on record, no thread at work.
NoThreads == asked = << >> /\ readers = << >> /\ slots = << >>

NotValidated == [kind |-> "none", index |-> 0 - 1, norm |-> 0]
NoOutcome == Outcome([tag |-> "none", vector |-> << >>], FALSE, << >>)

Init ==
    /\ kind \in Kinds
    /\ data \in Datasets
    /\ \E p \in Parameters : alpha = p[1] /\ beta = p[2] /\ theta = p[3]
    /\ fast_preprocessing \in (IF kind = "TensorTop1" THEN BOOLEAN ELSE {FALSE})
    /\ pc = "start"
    /\ NoThreads
    /\ validation = NotValidated
    /\ gaussian_vectors = << >>
    /\ hash_table = EmptyTable
    /\ threshold = 0
    /\ top1_list = << >>
    /\ tensor_hash_table = EmptyTable
    /\ last_query = << >>
    /\ outcome = NoOutcome

\* Top1::new and CloseTop1::new: the result of check_input is only printed;
\* data[0] panics on an empty dataset; then directions, table and threshold.
SimpleNew(k) ==
    /\ pc = "start"
    /\ kind = k
    /\ validation' = check_input(data, alpha, beta, theta)
    /\ IF Len(data) = 0
       THEN /\ pc' = "panicked"
            /\ UNCHANGED simple_fields
       ELSE LET d == Len(data[1])
                n == Len(data)
                m == NumDirections(n, alpha, theta)
            IN /\ m <= MaxDirs
               /\ \E drawn \in Directions(m, d) :
                     /\ gaussian_vectors' = drawn
                     /\ hash_table' =
                            IF k = "Top1" THEN get_hash_table(data, drawn)
                            ELSE close_get_hash_table(data, drawn)
               /\ threshold' = get_threshold(alpha, m)
               /\ pc' = "built"
    /\ UNCHANGED << threads, inputs, tensor_fields, query_vars >>

Top1New == SimpleNew("Top1")

CloseTop1New == SimpleNew("CloseTop1")

\* Top1::new of the tensor base index on drawn directions: the structure, or
\* a panic of get_match_list_parallel.
BaseTop1(drawn, a, m) ==
    LET matched == get_match_list_parallel(data, drawn)
    IN [ panicked |-> matched.panicked,
         gaussian_vectors |-> drawn,
         match_list |-> matched.list,
         threshold |-> get_threshold(a, m) ]

\* TensorTop1::new: t and theta / t, the parameter printout (data[0] panics on
\* an empty dataset), t base structures, each validating its input and only
\* printing the result, then the composite table.
TensorTop1New ==
    /\ pc = "start"
    /\ kind = "TensorTop1"
    /\ IF Len(data) = 0
       THEN /\ pc' = "panicked"
            /\ UNCHANGED << validation, tensor_fields >>
       ELSE LET n == Len(data)
                d == Len(data[1])
                t == NumStructures(n, alpha, fast_preprocessing)
                theta_t == FDivS(theta, t * Scale)
                m == IF t = 0 THEN 0 ELSE NumDirections(n, alpha, theta_t)
            IN /\ t * m <= MaxDirs
               /\ validation' = IF t = 0 THEN NotValidated
                                ELSE check_input(data, alpha, beta, theta_t)
               /\ \E drawn \in [1..t -> Directions(m, d)] :
                     LET built == [k \in 1..t |-> BaseTop1(drawn[k], alpha, m)]
                     IN IF \E k \in 1..t : built[k].panicked
                        THEN /\ pc' = "panicked"
                             /\ UNCHANGED tensor_fields
                        ELSE /\ pc' = "built"
                             /\ top1_list' = built
                             /\ tensor_hash_table' =
                                    tensor_get_hash_table(data, built)
    /\ UNCHANGED << threads, inputs, simple_fields, query_vars >>

\* Top1::query and CloseTop1::query on a built index.
SimpleQuery ==
    /\ pc = "built"
    /\ kind \in {"Top1", "CloseTop1"}
    /\ \E q \in Queries :
          /\ last_query' = q
          /\ outcome' = query(gaussian_vectors, q, threshold, hash_table, beta)
    /\ UNCHANGED << threads, inputs, pc, validation, simple_fields, tensor_fields >>

\* TensorTop1::query on a built index.
TensorQuery ==
    /\ pc = "built"
    /\ kind = "TensorTop1"
    /\ \E q \in Queries :
          /\ last_query' = q
          /\ outcome' = tensor_query(q, top1_list, tensor_hash_table, beta)
    /\ UNCHANGED << threads, inputs, pc, validation, simple_fields, tensor_fields >>

Next ==
    \/ Top1New
    \/ CloseTop1New
    \/ TensorTop1New
    \/ SimpleQuery
    \/ TensorQuery

Spec == Init /\ [][Next]_vars

\* ------------------------------------------- check_input on its own

CheckAlphas == {0, 500, 1000, 1200, NaN}
CheckBetas == {0, 400, 500, NaN}
CheckThetas == {0 - 750, 0, 750, NaN}
CheckVectorsOf ==
    { <<1000, 0>>, <<600, 800>>, <<1000, 1>>, <<1000, 2>>, <<2000, 0>>,
      <<1000>>, << >>, <<NaN, 0>>, <<PosInf, 0>> }
MaxCheckN == 2
CheckDatasets == UNION {[1..n -> CheckVectorsOf] : n \in 0..MaxCheckN}

InitCheck ==
    /\ kind = "check_input"
    /\ data \in CheckDatasets
    /\ alpha \in CheckAlphas
    /\ beta \in CheckBetas
    /\ theta \in CheckThetas
    /\ fast_preprocessing = FALSE
    /\ pc = "start"
    /\ NoThreads
    /\ validation = NotValidated
    /\ gaussian_vectors = << >>
    /\ hash_table = EmptyTable
    /\ threshold = 0
    /\ top1_list = << >>
    /\ tensor_hash_table = EmptyTable
    /\ last_query = << >>
    /\ outcome = NoOutcome

\* One call of check_input.
CheckInput ==
    /\ pc = "start"
    /\ kind = "check_input"
    /\ validation' = check_input(data, alpha, beta, theta)
    /\ pc' = "checked"
    /\ UNCHANGED << threads, inputs, simple_fields, tensor_fields, query_vars >>

NextCheck == CheckInput

SpecCheck == InitCheck /\ [][NextCheck]_vars

\* --------------------------------------- cartesian_product on its own

\* The most label lists in a collection, and the most labels in a list.
MaxLists == 3
MaxLabels == 2

ProductLabels == {Label(1), Label(11)}
LabelLists == UNION {[1..n -> ProductLabels] : n \in 0..MaxLabels}
Collections == UNION {[1..k -> LabelLists] : k \in 0..MaxLists}

InitProduct ==
    /\ kind = "cartesian_product"
    /\ data = << >>
    /\ alpha = 0 /\ beta = 0 /\ theta = 0
    /\ fast_preprocessing = FALSE
    /\ pc = "start"
    /\ NoThreads
    /\ validation = NotValidated
    /\ gaussian_vectors = << >>
    /\ hash_table = EmptyTable
    /\ threshold = 0
    /\ top1_list = << >>
    /\ tensor_hash_table = EmptyTable
    /\ last_query = << >>
    /\ \E collection \in Collections :
          outcome = [NoOutcome EXCEPT !.collection = collection]

\* One call of cartesian_product on the collection.
CartesianProduct ==
    /\ pc = "start"
    /\ kind = "cartesian_product"
    /\ outcome' = [outcome EXCEPT
                      !.candidates = cartesian_product(outcome.collection)]
    /\ pc' = "multiplied"
    /\ UNCHANGED << threads, inputs, validation, simple_fields, tensor_fields,
                    last_query >>

NextProduct == CartesianProduct

SpecProduct == InitProduct /\ [][NextProduct]_vars

\* ------------------------------------------- repeated queries, on record

\* The most queries kept on record.
MaxAsked == 3

RepeatDatasets ==
    { << <<1000, 0>>, <<0, 1000>>, <<600, 800>> >>,
      << <<0, 1000>>, <<600, 800>>, <<0, 1000>> >>,
      << <<1000, 0>>, <<0, 1000>> >> }
RepeatParameters == {<<500, 400, 750>>, <<500, 400, 1500>>}
RepeatQueries == {<<0, 1000>>, <<600, 800>>, <<2000, 0>>}

InitRepeat ==
    /\ kind \in Kinds
    /\ data \in RepeatDatasets
    /\ \E p \in RepeatParameters : alpha = p[1] /\ beta = p[2] /\ theta = p[3]
    /\ fast_preprocessing = FALSE
    /\ pc = "start"
    /\ NoThreads
    /\ validation = NotValidated
    /\ gaussian_vectors = << >>
    /\ hash_table = EmptyTable
    /\ threshold = 0
    /\ top1_list = << >>
    /\ tensor_hash_table = EmptyTable
    /\ last_query = << >>
    /\ outcome = NoOutcome

\* The bucket table after the first occurrence of a vector is taken out of
\* the bucket of a key.
Without(table, key, vector) ==
    LET bucket == table[key]
        at == CHOOSE k \in 1..Len(bucket) :
                  bucket[k] = vector /\ \A l \in 1..(k - 1) : bucket[l] # vector
    IN [table EXCEPT ![key] = SubSeq(bucket, 1, at - 1)
                              \o SubSeq(bucket, at + 1, Len(bucket))]

\* A query that takes the vector it returns out of its bucket.
ConsumingSimpleQuery ==
    /\ pc = "built"
    /\ kind \in {"Top1", "CloseTop1"}
    /\ Len(asked) < MaxAsked
    /\ \E q \in RepeatQueries :
          LET result == query(gaussian_vectors, q, threshold, hash_table, beta)
          IN /\ last_query' = q
             /\ outcome' = result
             /\ asked' = Append(asked, [q |-> q, out |-> result.out])
             /\ hash_table' =
                    IF result.out.tag = "Some"
                    THEN Without(hash_table, result.probes[Len(result.probes)],
                                 result.out.vector)
                    ELSE hash_table
    /\ UNCHANGED << readers, slots, inputs, pc, validation, gaussian_vectors,
                    threshold, tensor_fields >>

\* Top1::query and CloseTop1::query, the call and its result put on record.
RepeatedSimpleQuery ==
    /\ pc = "built"
    /\ kind \in {"Top1", "CloseTop1"}
    /\ Len(asked) < MaxAsked
    /\ \E q \in RepeatQueries :
          LET result == query(gaussian_vectors, q, threshold, hash_table, beta)
          IN /\ last_query' = q
             /\ outcome' = result
             /\ asked' = Append(asked, [q |-> q, out |-> result.out])
    /\ UNCHANGED << readers, slots, inputs, pc, validation, simple_fields,
                    tensor_fields >>

\* TensorTop1::query, the call and its result put on record.
RepeatedTensorQuery ==
    /\ pc = "built"
    /\ kind = "TensorTop1"
    /\ Len(asked) < MaxAsked
    /\ \E q \in RepeatQueries :
          LET result == tensor_query(q, top1_list, tensor_hash_table, beta)
          IN /\ last_query' = q
             /\ outcome' = result
             /\ asked' = Append(asked, [q |-> q, out |-> result.out])
    /\ UNCHANGED << readers, slots, inputs, pc, validation, simple_fields,
                    tensor_fields >>

NextRepeat ==
    \/ Top1New
    \/ CloseTop1New
    \/ TensorTop1New
    \/ RepeatedSimpleQuery
    \/ RepeatedTensorQuery

SpecRepeat == InitRepeat /\ [][NextRepeat]_vars

\* ------------------------------------- top_1.rs, the old Top1 at work

InitLegacy ==
    /\ kind = "LegacyTop1"
    /\ data \in Datasets
    /\ \E p \in Parameters : alpha = p[1] /\ beta = p[2] /\ theta = p[3]
    /\ fast_preprocessing = FALSE
    /\ pc = "start"
    /\ NoThreads
    /\ validation = NotValidated
    /\ gaussian_vectors = << >>
    /\ hash_table = EmptyTable
    /\ threshold = 0
    /\ top1_list = << >>
    /\ tensor_hash_table = EmptyTable
    /\ last_query = << >>
    /\ outcome = NoOutcome

\* Top1::new of top_1.rs; its check_input and get_hash_table have the text of
\* those of checks.rs and simple_data_structures/top1.rs.
LegacyTop1New ==
    /\ pc = "start"
    /\ kind = "LegacyTop1"
    /\ validation' = check_input(data, alpha, beta, theta)
    /\ IF Len(data) = 0
       THEN /\ pc' = "panicked"
            /\ UNCHANGED simple_fields
       ELSE LET m == NumDirections(Len(data), alpha, theta)
            IN /\ m <= MaxDirs
               /\ \E drawn \in Directions(m, Len(data[1])) :
                     /\ gaussian_vectors' = drawn
                     /\ hash_table' = get_hash_table(data, drawn)
               /\ threshold' = get_threshold(alpha, m)
               /\ pc' = "built"
    /\ UNCHANGED << threads, inputs, tensor_fields, query_vars >>

\* Top1::query of top_1.rs on a built index.
LegacyQuery ==
    /\ pc = "built"
    /\ kind = "LegacyTop1"
    /\ \E q \in Queries :
          /\ last_query' = q
          /\ outcome' = legacy_query(gaussian_vectors, q, threshold,
                                     hash_table, beta)
    /\ UNCHANGED << threads, inputs, pc, validation, simple_fields,
                    tensor_fields >>

NextLegacy ==
    \/ LegacyTop1New
    \/ LegacyQuery

SpecLegacy == InitLegacy /\ [][NextLegacy]_vars

\* ------------------------------------------- queries running concurrently

\* The number of threads that query the index at the same time.
NumReaders == 2

ReaderDatasets ==
    { << <<1000, 0>>, <<0, 1000>>, <<600, 800>> >>,
      << <<0, 1000>>, <<600, 800>>, <<0, 1000>> >> }

\* A thread that has not called query yet.
IdleReader ==
    [pc |-> "idle", q |-> << >>, indices |-> << >>, k |-> 0, out |-> NoOutcome.out]

InitReaders ==
    /\ kind \in Kinds
    /\ data \in ReaderDatasets
    /\ \E p \in RepeatParameters : alpha = p[1] /\ beta = p[2] /\ theta = p[3]
    /\ fast_preprocessing = FALSE
    /\ pc = "start"
    /\ asked = << >>
    /\ slots = << >>
    /\ readers = << >>
    /\ validation = NotValidated
    /\ gaussian_vectors = << >>
    /\ hash_table = EmptyTable
    /\ threshold = 0
    /\ top1_list = << >>
    /\ tensor_hash_table = EmptyTable
    /\ last_query = << >>
    /\ outcome = NoOutcome

\* The built index is shared with the threads (by reference, or in an Arc).
Share ==
    /\ pc = "built"
    /\ readers = << >>
    /\ readers' = [r \in 1..NumReaders |-> IdleReader]
    /\ UNCHANGED << asked, slots, inputs, pc, validation, simple_fields,
                    tensor_fields, query_vars >>

\* What a thread's step leaves alone: everything but the threads' own state.
ReaderFrame ==
    UNCHANGED << asked, slots, inputs, pc, validation, simple_fields,
                 tensor_fields, query_vars >>

\* The bucket table the index holds.
TableOfIndex == IF kind = "TensorTop1" THEN tensor_hash_table ELSE hash_table

\* Thread r calls query(&self, q).
Call(r) ==
    /\ r \in DOMAIN readers
    /\ readers[r].pc = "idle"
    /\ \E q \in RepeatQueries :
          readers' = [readers EXCEPT ![r] = [@ EXCEPT !.pc = "validate", !.q = q]]
    /\ ReaderFrame

\* query: the normalization check and its early return.
Validate(r) ==
    /\ r \in DOMAIN readers
    /\ readers[r].pc = "validate"
    /\ readers' = [readers EXCEPT ![r] =
           IF is_normalized(@.q) THEN [@ EXCEPT !.pc = "search"]
           ELSE [@ EXCEPT !.pc = "done", !.out = InvalidQuery]]
    /\ ReaderFrame

\* query: the search of the directions, and the early return on no candidate.
Search(r) ==
    /\ r \in DOMAIN readers
    /\ readers[r].pc = "search"
    /\ LET indices == IF kind = "TensorTop1"
                      THEN tensor_search(top1_list, readers[r].q)
                      ELSE search(gaussian_vectors, readers[r].q,
                                  threshold).indices
       IN readers' = [readers EXCEPT ![r] =
              IF indices = << >>
              THEN [@ EXCEPT !.pc = "done", !.out = NotFound]
              ELSE [@ EXCEPT !.pc = "scan", !.indices = indices, !.k = 1]]
    /\ ReaderFrame

\* The state of a thread after its look at the bucket of its next candidate.
AfterProbe(reader, table) ==
    LET i == reader.indices[reader.k]
        close == IF i \in DOMAIN table
                 THEN find_close_vector(reader.q, table[i], beta)
                 ELSE [is_some |-> FALSE, vector |-> << >>]
    IN IF close.is_some
       THEN [reader EXCEPT !.pc = "done", !.out = Found(close.vector)]
       ELSE IF reader.k = Len(reader.indices)
            THEN [reader EXCEPT !.pc = "done", !.out = NotFound]
            ELSE [reader EXCEPT !.k = @ + 1]

\* A probe that takes the vector it returns out of the shared table.
ConsumingProbe(r) ==
    /\ r \in DOMAIN readers
    /\ readers[r].pc = "scan"
    /\ kind \in {"Top1", "CloseTop1"}
    /\ LET after == AfterProbe(readers[r], hash_table)
       IN /\ readers' = [readers EXCEPT ![r] = after]
          /\ hash_table' =
                 IF after.out.tag = "Some"
                 THEN Without(hash_table, readers[r].indices[readers[r].k],
                              after.out.vector)
                 ELSE hash_table
    /\ UNCHANGED << asked, slots, inputs, pc, validation, gaussian_vectors,
                    threshold, tensor_fields, query_vars >>

\* query: one turn of the loop over the candidates.
Probe(r) ==
    /\ r \in DOMAIN readers
    /\ readers[r].pc = "scan"
    /\ readers' = [readers EXCEPT ![r] = AfterProbe(@, TableOfIndex)]
    /\ ReaderFrame

NextReaders ==
    \/ Top1New
    \/ CloseTop1New
    \/ TensorTop1New
    \/ Share
    \/ \E r \in 1..NumReaders : Call(r)
    \/ \E r \in 1..NumReaders : Validate(r)
    \/ \E r \in 1..NumReaders : Search(r)
    \/ \E r \in 1..NumReaders : Probe(r)

SpecReaders == InitReaders /\ [][NextReaders]_vars

\* ------------------------------- the worker threads of TensorTop1::new

\* Datasets of three points (none empty: data[0] is read before the loop).
ParallelDatasets ==
    { << <<1000, 0>>, <<0, 1000>>, <<600, 800>> >>,
      << <<0, 1000>>, <<1000, 0>>, <<0, 1000>> >>,
      << <<600, 800>>, <<NaN, 0>>, <<1000, 0>> >> }

InitParallel ==
    /\ kind = "TensorTop1"
    /\ data \in ParallelDatasets
    /\ \E p \in RepeatParameters : alpha = p[1] /\ beta = p[2] /\ theta = p[3]
    /\ fast_preprocessing = FALSE
    /\ pc = "start"
    /\ NoThreads
    /\ validation = NotValidated
    /\ gaussian_vectors = << >>
    /\ hash_table = EmptyTable
    /\ threshold = 0
    /\ top1_list = << >>
    /\ tensor_hash_table = EmptyTable
    /\ last_query = << >>
    /\ outcome = NoOutcome

\* t, theta / t and m as TensorTop1::new and Top1::new compute them.
StructuresWanted == NumStructures(Len(data), alpha, fast_preprocessing)
ThetaOfBase == FDivS(theta, StructuresWanted * Scale)
DirectionsOfBase ==
    IF StructuresWanted = 0 THEN 0
    ELSE NumDirections(Len(data), alpha, ThetaOfBase)

\* One turn of the loop of TensorTop1::new up to the call of
\* get_match_list_parallel: Top1::new validates (and only prints), draws its
\* directions (the variable gaussian_vectors holds this local), and hands
\* every point to the thread pool.
DrawDirections ==
    /\ pc \in {"start", "looping"}
    /\ Len(top1_list) < StructuresWanted
    /\ StructuresWanted * DirectionsOfBase <= MaxDirs
    /\ validation' = check_input(data, alpha, beta, ThetaOfBase)
    /\ gaussian_vectors' \in Directions(DirectionsOfBase, Len(data[1]))
    /\ slots' = << >>
    /\ pc' = "matching"
    /\ UNCHANGED << asked, readers, inputs, hash_table, threshold,
                    tensor_fields, query_vars >>

\* The points whose closure has run.
Filled == { slots[j][1] : j \in 1..Len(slots) }

\* A worker thread runs the closure of par_iter().map on point i, whichever
\* point the scheduler gave it; slots records the results in completion order.
FillSlot(i) ==
    /\ pc = "matching"
    /\ i \in 1..Len(data)
    /\ i \notin Filled
    /\ slots' = Append(slots, <<i, closest_index(data[i], gaussian_vectors)>>)
    /\ UNCHANGED << asked, readers, inputs, pc, validation, simple_fields,
                    tensor_fields, query_vars >>

\* The result of the closure on point i.
SlotOf(i) == (CHOOSE j \in 1..Len(slots) : slots[j][1] = i)

\* The results taken in the order the threads finished.
CollectedByCompletion == [j \in 1..Len(slots) |-> slots[j][2]]

\* collect() of an indexed parallel iterator: entry i is the result for
\* point i.
CollectedByIndex == [i \in 1..Len(data) |-> slots[SlotOf(i)][2]]

\* The end of get_match_list_parallel and of Top1::new: a panic of a closure
\* is propagated, else the structure is pushed onto top1_list.
Collect ==
    /\ pc = "matching"
    /\ Filled = 1..Len(data)
    /\ LET list == CollectedByIndex
       IN IF \E i \in 1..Len(list) : list[i] = Panic
          THEN /\ pc' = "panicked"
               /\ UNCHANGED top1_list
          ELSE /\ pc' = "looping"
               /\ top1_list' = Append(top1_list,
                      [ panicked |-> FALSE,
                        gaussian_vectors |-> gaussian_vectors,
                        match_list |-> list,
                        threshold |-> get_threshold(alpha, DirectionsOfBase) ])
    /\ UNCHANGED << threads, inputs, validation, simple_fields,
                    tensor_hash_table, query_vars >>

\* After the loop: get_hash_table(data, &top1_list), one pass over the data.
FillTable ==
    /\ pc \in {"start", "looping"}
    /\ Len(top1_list) = StructuresWanted
    /\ tensor_hash_table' = tensor_get_hash_table(data, top1_list)
    /\ pc' = "built"
    /\ UNCHANGED << threads, inputs, validation, simple_fields, top1_list,
                    query_vars >>

NextParallel ==
    \/ DrawDirections
    \/ \E i \in 1..Len(data) : FillSlot(i)
    \/ Collect
    \/ FillTable

SpecParallel == InitParallel /\ [][NextParallel]_vars

\* ------------------------------------------ composite keys on their own

\* The most substructures of a composite key.
MaxStructures == 2

\* Direction indices of one and of two digits, and two stored points.
KeyIndices == {0, 1, 11}
KeyPoints == << <<1000, 0>>, <<0, 1000>> >>

\* A base structure as far as the keys go: its match_list.
BaseOf(match_list) ==
    [ panicked |-> FALSE, gaussian_vectors |-> << >>,
      match_list |-> match_list, threshold |-> 0 ]

\* The label lists a search can return: ascending, one or two labels.
CandidateLists ==
    { <<Label(a)>> : a \in KeyIndices }
        \cup { <<Label(c[1]), Label(c[2])>> :
                  c \in { x \in KeyIndices \X KeyIndices : x[1] < x[2] } }

InitKeys ==
    /\ kind = "composite_keys"
    /\ data = KeyPoints
    /\ alpha = 0 /\ beta = 0 /\ theta = 0
    /\ fast_preprocessing = FALSE
    /\ pc = "start"
    /\ NoThreads
    /\ validation = NotValidated
    /\ gaussian_vectors = << >>
    /\ hash_table = EmptyTable
    /\ threshold = 0
    /\ tensor_hash_table = EmptyTable
    /\ last_query = << >>
    /\ \E t \in 1..MaxStructures :
          /\ top1_list \in
                 [1..t -> { BaseOf(l) : l \in [1..Len(KeyPoints) -> KeyIndices] }]
          /\ \E collection \in [1..t -> CandidateLists] :
                 outcome = [NoOutcome EXCEPT !.collection = collection]

\* The composite table of the points, and the composite keys of the query:
\* get_hash_table(data, &top1_list) and cartesian_product(&collection).
CompositeKeys ==
    /\ pc = "start"
    /\ kind = "composite_keys"
    /\ tensor_hash_table' = tensor_get_hash_table(data, top1_list)
    /\ outcome' = [outcome EXCEPT
                      !.candidates = cartesian_product(outcome.collection)]
    /\ pc' = "keyed"
    /\ UNCHANGED << threads, inputs, validation, simple_fields, top1_list,
                    last_query >>

NextKeys == CompositeKeys

SpecKeys == InitKeys /\ [][NextKeys]_vars

\* ------------------ a simple Top1 and a tensor index of one substructure

PairDatasets ==
    { << <<1000, 0>>, <<0, 1000>>, <<600, 800>> >>,
      << <<600, 800>>, <<1000, 0>>, <<600, 800>> >>,
      << <<0, 1000>>, <<600, 800>>, <<1000, 0>> >> }
PairDirectionVectors == DirectionVectors \cup {<<0, 1400>>}

InitPair ==
    /\ kind = "Top1 and TensorTop1"
    /\ data \in PairDatasets
    /\ alpha = 500 /\ beta = 400 /\ theta = 750
    /\ fast_preprocessing = FALSE
    /\ pc = "start"
    /\ NoThreads
    /\ validation = NotValidated
    /\ gaussian_vectors = << >>
    /\ hash_table = EmptyTable
    /\ threshold = 0
    /\ top1_list = << >>
    /\ tensor_hash_table = EmptyTable
    /\ last_query = << >>
    /\ outcome = NoOutcome

\* The two indices over the same dataset and the same drawn directions: the
\* fields of the simple Top1::new, and a tensor index whose top1_list is the
\* one base Top1 with these directions and this threshold.
PairNew ==
    /\ pc = "start"
    /\ kind = "Top1 and TensorTop1"
    /\ validation' = check_input(data, alpha, beta, theta)
    /\ LET m == NumDirections(Len(data), alpha, theta)
       IN /\ m <= MaxDirs
          /\ \E drawn \in [1..m -> PairDirectionVectors] :
                LET base == BaseTop1(drawn, alpha, m)
                IN /\ gaussian_vectors' = drawn
                   /\ hash_table' = get_hash_table(data, drawn)
                   /\ threshold' = get_threshold(alpha, m)
                   /\ IF base.panicked
                      THEN /\ pc' = "panicked"
                           /\ UNCHANGED tensor_fields
                      ELSE /\ pc' = "built"
                           /\ top1_list' = <<base>>
                           /\ tensor_hash_table' =
                                  tensor_get_hash_table(data, <<base>>)
    /\ UNCHANGED << threads, inputs, query_vars >>

\* The same query on both: outcome is that of the simple index, asked holds
\* that of the tensor index.
PairQuery ==
    /\ pc = "built"
    /\ kind = "Top1 and TensorTop1"
    /\ \E q \in Queries :
          /\ last_query' = q
          /\ outcome' = query(gaussian_vectors, q, threshold, hash_table, beta)
          /\ asked' = << [q |-> q,
                          out |-> tensor_query(q, top1_list, tensor_hash_table,
                                               beta).out] >>
    /\ UNCHANGED << readers, slots, inputs, pc, validation, simple_fields,
                    tensor_fields >>

NextPair == PairNew \/ PairQuery

SpecPair == InitPair /\ [][NextPair]_vars

\* ========================================================== properties

\* |sum(v_i^2) - 1|, in product units.
Deviation(v) == FAbs(FSub(NormSq(v), One))

\* A query has been answered.
Answered == pc = "built" /\ outcome # NoOutcome

\* C1.  Query soundness: when a query on a built Top1, CloseTop1 or
\* TensorTop1 returns Found(v), v is one of the data vectors the index was
\* built from and inner(q, v) >= beta.
QuerySoundness ==
    (Answered /\ outcome.out.tag = "Some") =>
        /\ \E i \in 1..Len(data) : data[i] = outcome.out.vector
        /\ FGe(dot_product(last_query, outcome.out.vector), ToProduct(beta))

\* A tensor query found a vector although another stored vector is too far.
QuerySoundnessWitness ==
    /\ Answered
    /\ kind = "TensorTop1"
    /\ outcome.out.tag = "Some"
    /\ \E i \in 1..Len(data) :
          FLt(dot_product(last_query, data[i]), ToProduct(beta))

\* C2 as stated.  query returns InvalidQuery exactly when
\* |sum(q_i^2) - 1| > 1e-6; then it neither searches nor probes; and within
\* the tolerance the outcome is Found or NotFound.
QueryValidationAsStated ==
    Answered =>
        /\ (outcome.out = InvalidQuery) <=> FGt(Deviation(last_query), Tol)
        /\ outcome.out = InvalidQuery =>
               (~outcome.searched /\ outcome.probes = << >>)
        /\ FLe(Deviation(last_query), Tol) =>
               outcome.out.tag \in {"Some", "None"}

\* C2, amended.  query returns InvalidQuery exactly when
\* |sum(q_i^2) - 1| <= 1e-6 does not hold, which includes a sum that is NaN;
\* then it neither searches nor probes; and within the tolerance the outcome
\* is Found or NotFound.
QueryValidation ==
    Answered =>
        /\ (outcome.out = InvalidQuery) <=> ~FLe(Deviation(last_query), Tol)
        /\ outcome.out = InvalidQuery =>
               (~outcome.searched /\ outcome.probes = << >>)
        /\ FLe(Deviation(last_query), Tol) =>
               outcome.out.tag \in {"Some", "None"}

\* A query off the unit sphere by exactly the tolerance was answered with a
\* search of the directions.
QueryValidationWitness ==
    /\ Answered
    /\ Deviation(last_query) = Tol
    /\ outcome.searched
    /\ outcome.out.tag \in {"Some", "None"}

\* C3.  Validation failure prevents construction: when check_input rejects
\* the constructor's arguments, no directions are generated, no bucket is
\* assigned and no index is returned.
ValidationFailurePreventsConstruction ==
    (pc # "start" /\ check_input(data, alpha, beta, theta) # Ok) =>
        /\ pc # "built"
        /\ gaussian_vectors = << >> /\ hash_table = EmptyTable
        /\ top1_list = << >> /\ tensor_hash_table = EmptyTable

\* C4.  Empty dataset: construction over an empty dataset, the parameters
\* being in range, ends with the EmptyDataset validation error; it neither
\* crashes nor produces an index.
EmptyDatasetEndsWithError ==
    (pc # "start" /\ Len(data) = 0 /\ alpha = 500 /\ beta = 400 /\ theta > 0) =>
        /\ pc # "panicked"
        /\ pc # "built"
        /\ validation.kind = "EmptyDataset"

\* What C5 asks of the arguments of check_input.
Acceptable(d, a, b, th) ==
    /\ FLt(0, a) /\ FLt(a, Scale)
    /\ FLt(0, b) /\ FLt(b, a)
    /\ FGt(th, 0)
    /\ Len(d) > 0
    /\ Len(d[1]) > 0
    /\ \A i \in 1..Len(d) : Len(d[i]) = Len(d[1])
    /\ \A i \in 1..Len(d) : FLe(Deviation(d[i]), Tol)

\* C5.  check_input returns Ok if and only if 0 < alpha < 1, 0 < beta < alpha,
\* theta > 0, the data is non-empty, the first vector has positive length,
\* every vector has the length of the first and every vector v has
\* |sum(v_i^2) - 1| <= 1e-6; otherwise it returns an error.
CheckInputOkIffAcceptable ==
    pc = "checked" =>
        ((validation = Ok) <=> Acceptable(data, alpha, beta, theta))

\* The least member of a non-empty set of numbers.
MinOf(S) == CHOOSE x \in S : \A y \in S : x <= y

RECURSIVE Ascending(_)
\* The members of a finite set of numbers in ascending order, each once.
Ascending(S) ==
    IF S = {} THEN << >>
    ELSE <<MinOf(S)>> \o Ascending(S \ {MinOf(S)})

\* The directions (counted from 1) that no direction beats on the inner
\* product with v.
Maximisers(v, directions) ==
    { j \in 1..Len(directions) :
        \A k \in 1..Len(directions) :
            ~FGt(dot_product(v, directions[k]), dot_product(v, directions[j])) }

\* The label of the lowest maximising direction.
LowestMaximiser(v, directions) == MinOf(Maximisers(v, directions)) - 1

\* C6.  Argmax assignment in the simple Top1 index: every data vector is in
\* the bucket labelled with the direction that maximises the inner product
\* with it, the lowest such direction on a tie, and each bucket lists its
\* vectors in data order, duplicates kept.
ArgmaxAssignment ==
    (pc = "built" /\ kind = "Top1") =>
        /\ DOMAIN hash_table =
               { LowestMaximiser(data[i], gaussian_vectors) : i \in 1..Len(data) }
        /\ \A key \in DOMAIN hash_table :
               hash_table[key] =
                   SelectSeq(data, LAMBDA v :
                       LowestMaximiser(v, gaussian_vectors) = key)

\* A Top1 index holds a bucket of two different vectors, one of which has two
\* maximising directions, and leaves a direction without a bucket.
ArgmaxAssignmentWitness ==
    /\ pc = "built" /\ kind = "Top1"
    /\ \E key \in DOMAIN hash_table :
          /\ Len(hash_table[key]) >= 2
          /\ hash_table[key][1] # hash_table[key][2]
          /\ Cardinality(Maximisers(hash_table[key][2], gaussian_vectors)) >= 2
    /\ \E j \in 1..Len(gaussian_vectors) : (j - 1) \notin DOMAIN hash_table

\* C7 as stated.  In the base index of the tensor index, built from data that
\* check_input accepts, match_list[i] from
\* get_match_list and from get_match_list_parallel is the index of the
\* direction with the maximum inner product with data[i], the lowest such
\* index when several directions attain the maximum.
MatchListLowestMaximiser ==
    (pc = "built" /\ kind = "TensorTop1" /\ validation = Ok) =>
        \A s \in 1..Len(top1_list) : \A i \in 1..Len(data) :
            LET directions == top1_list[s].gaussian_vectors
            IN /\ top1_list[s].match_list[i] =
                      LowestMaximiser(data[i], directions)
               /\ get_match_list(data, directions).list[i] =
                      LowestMaximiser(data[i], directions)

\* The directions (counted from 1) whose inner product with q reaches the
\* threshold.
Qualifying(directions, q, limit) ==
    { j \in 1..Len(directions) : FGe(dot_product(q, directions[j]), limit) }

\* The labels of the simple index for a set of directions, ascending.
IndicesOf(S) == [k \in 1..Cardinality(S) |-> Ascending(S)[k] - 1]

\* The labels of the tensor base index for a set of directions, ascending.
LabelsOf(S) == [k \in 1..Cardinality(S) |-> Label(Ascending(S)[k] - 1)]

\* C8.  search returns exactly the indices j of the directions with
\* inner(query, direction_j) >= threshold, each once and ascending; the
\* result is empty (None in the simple index, an empty list of "j#" labels in
\* the tensor base index) exactly when no direction qualifies.
SearchIsExact ==
    (Answered /\ outcome.searched) =>
        IF kind = "TensorTop1"
        THEN /\ Len(outcome.collection) = Len(top1_list)
             /\ \A s \in 1..Len(top1_list) :
                    LET hits == Qualifying(top1_list[s].gaussian_vectors,
                                           last_query, top1_list[s].threshold)
                    IN /\ outcome.collection[s] = LabelsOf(hits)
                       /\ (outcome.collection[s] = << >>) <=> (hits = {})
        ELSE LET hits == Qualifying(gaussian_vectors, last_query, threshold)
                 found == search(gaussian_vectors, last_query, threshold)
             IN /\ outcome.candidates = IndicesOf(hits)
                /\ found.indices = IndicesOf(hits)
                /\ (~found.is_some) <=> (hits = {})

\* A simple index searched its directions and some, but not all and more than
\* one, qualified.
SearchIsExactWitness ==
    /\ Answered /\ outcome.searched
    /\ kind \in {"Top1", "CloseTop1"}
    /\ LET hits == Qualifying(gaussian_vectors, last_query, threshold)
       IN /\ Cardinality(hits) >= 2
          /\ Cardinality(hits) < Len(gaussian_vectors)
          /\ 1 \notin hits

\* The places <<label, position>> of a bucket table that a scan of the
\* candidate labels visits and whose vector reaches beta with q.
Reaching(q, labels, table, limit) ==
    { place \in UNION { {<<j, p>> : p \in 1..Len(table[j])} :
                           j \in labels \cap DOMAIN table } :
        FGe(dot_product(q, table[place[1]][place[2]]), limit) }

\* The first of a non-empty set of places in scan order: labels ascending,
\* positions ascending within a label.
FirstPlace(places) ==
    CHOOSE a \in places :
        \A b \in places : a[1] < b[1] \/ (a[1] = b[1] /\ a[2] <= b[2])

\* C9.  Base-index query result: for a normalized q, query returns the first
\* vector v with inner(q, v) >= beta in the scan of the candidate labels of
\* search(q) in ascending order and of each candidate's bucket in insertion
\* order; it returns NotFound exactly when search(q) is empty or no vector of
\* a candidate bucket reaches beta; a candidate label without a bucket is
\* skipped.
QueryReturnsFirstInScanOrder ==
    (Answered /\ kind \in {"Top1", "CloseTop1"} /\ is_normalized(last_query)) =>
        LET hits == Qualifying(gaussian_vectors, last_query, threshold)
            labels == {j - 1 : j \in hits}
            places == Reaching(last_query, labels, hash_table, ToProduct(beta))
        IN /\ (outcome.out = NotFound) <=> (hits = {} \/ places = {})
           /\ places # {} =>
                  outcome.out = Found(hash_table[FirstPlace(places)[1]]
                                                [FirstPlace(places)[2]])
           /\ outcome.probes = IF places = {} THEN IndicesOf(hits)
                                ELSE IndicesOf({j \in hits :
                                         j - 1 <= FirstPlace(places)[1]})

\* A query skipped a candidate label without a bucket and returned, from a
\* later candidate's bucket, a vector that is not the first of that bucket.
QueryReturnsFirstInScanOrderWitness ==
    /\ Answered /\ kind \in {"Top1", "CloseTop1"}
    /\ outcome.out.tag = "Some"
    /\ Len(outcome.probes) >= 2
    /\ outcome.probes[1] \notin DOMAIN hash_table
    /\ LET bucket == hash_table[outcome.probes[Len(outcome.probes)]]
       IN bucket[1] # outcome.out.vector

\* The directions (counted from 1) whose inner product with v is in the
\* corridor of an index of m directions.
InCorridor(v, directions) ==
    { j \in 1..Len(directions) :
        /\ FGe(dot_product(v, directions[j]), left_bound(Len(directions)))
        /\ FLe(dot_product(v, directions[j]), right_bound(Len(directions))) }

RECURSIVE StoredCount(_, _)
\* The number of vectors in the buckets of the given labels.
StoredCount(table, labels) ==
    IF labels = {} THEN 0
    ELSE Len(table[MinOf(labels)]) + StoredCount(table, labels \ {MinOf(labels)})

RECURSIVE SizeFrom(_, _)
\* |S_j| * ... * |S_k| for the lists of a collection from the j-th on.
SizeFrom(collection, j) ==
    IF j > Len(collection) THEN 1
    ELSE Len(collection[j]) * SizeFrom(collection, j + 1)

RECURSIVE PlaceFrom(_, _, _)
\* The number of combinations that precede the choice of one element per
\* list in lexicographic order, the first list varying slowest.
PlaceFrom(collection, choice, j) ==
    IF j > Len(collection) THEN 0
    ELSE (choice[j] - 1) * SizeFrom(collection, j + 1)
         + PlaceFrom(collection, choice, j + 1)

RECURSIVE ConcatFrom(_, _, _)
\* s_j s_(j+1) ... s_k for the chosen elements.
ConcatFrom(collection, choice, j) ==
    IF j > Len(collection) THEN << >>
    ELSE collection[j][choice[j]] \o ConcatFrom(collection, choice, j + 1)

\* The ways to choose one element from each list.
Choices(collection) ==
    { choice \in [1..Len(collection) -> 1..MaxLabels] :
        \A j \in 1..Len(collection) : choice[j] <= Len(collection[j]) }

\* C11.  Cartesian product law: for a non-empty list of label lists
\* S_1..S_k, cartesian_product returns the concatenations s_1 s_2 ... s_k of
\* one element from each list, one entry per combination, in lexicographic
\* product order with the first list varying slowest; the result is empty if
\* any S_i is empty, and for a single list it is that list.
CartesianProductLaw ==
    (pc = "multiplied" /\ Len(outcome.collection) > 0) =>
        LET collection == outcome.collection
            result == outcome.candidates
        IN /\ Len(result) = SizeFrom(collection, 1)
           /\ \A choice \in Choices(collection) :
                  result[PlaceFrom(collection, choice, 1) + 1] =
                      ConcatFrom(collection, choice, 1)
           /\ (\E j \in 1..Len(collection) : collection[j] = << >>) =>
                  result = << >>
           /\ Len(collection) = 1 => result = collection[1]

\* The product of three lists of two different labels each was taken.
CartesianProductLawWitness ==
    /\ pc = "multiplied"
    /\ Len(outcome.collection) = 3
    /\ \A j \in 1..3 : /\ Len(outcome.collection[j]) = 2
                        /\ outcome.collection[j][1] # outcome.collection[j][2]
    /\ Len(outcome.candidates) = 8

\* A normalized query on a built tensor index has been answered.
TensorAnswered ==
    Answered /\ kind = "TensorTop1" /\ is_normalized(last_query)

\* The directions of substructure s that qualify for the last query.
QualifyingIn(s) ==
    Qualifying(top1_list[s].gaussian_vectors, last_query,
               top1_list[s].threshold)

\* C12.  Tensor emptiness short-circuit: for a normalized query, if at least
\* one of the t substructures returns an empty candidate label set, the
\* tensor query returns NotFound and looks nothing up in the composite
\* bucket table.
TensorEmptinessShortCircuit ==
    (TensorAnswered /\ \E s \in 1..Len(top1_list) : QualifyingIn(s) = {}) =>
        /\ outcome.out = NotFound
        /\ outcome.probes = << >>

\* A tensor query found candidates in one substructure and none in another.
TensorEmptinessShortCircuitWitness ==
    /\ TensorAnswered
    /\ \E s \in 1..Len(top1_list) : QualifyingIn(s) = {}
    /\ \E s \in 1..Len(top1_list) : QualifyingIn(s) # {}
    /\ \E i \in 1..Len(data) :
          FGe(dot_product(last_query, data[i]), ToProduct(beta))

RECURSIVE CompositeKeyFrom(_, _)
\* hash_s(i) hash_(s+1)(i) ... hash_t(i) for data point i (counted from 1).
CompositeKeyFrom(i, s) ==
    IF s > Len(top1_list) THEN << >>
    ELSE Label(top1_list[s].match_list[i]) \o CompositeKeyFrom(i, s + 1)

RECURSIVE TableSize(_, _)
\* The number of vectors under the given keys of a bucket table.
TableSize(table, keys) ==
    IF keys = {} THEN 0
    ELSE LET key == CHOOSE k \in keys : TRUE
         IN Len(table[key]) + TableSize(table, keys \ {key})

\* C13.  Tensor composite table: after construction every data point i is
\* stored exactly once, under the key hash_1(i) hash_2(i) ... hash_t(i); the
\* bucket sizes sum to n and each bucket lists its points in data order.
TensorCompositeTable ==
    (pc = "built" /\ kind = "TensorTop1") =>
        /\ DOMAIN tensor_hash_table =
               { CompositeKeyFrom(i, 1) : i \in 1..Len(data) }
        /\ \A key \in DOMAIN tensor_hash_table :
               LET points == { i \in 1..Len(data) : CompositeKeyFrom(i, 1) = key }
               IN tensor_hash_table[key] =
                      [k \in 1..Cardinality(points) |-> data[Ascending(points)[k]]]
        /\ TableSize(tensor_hash_table, DOMAIN tensor_hash_table) = Len(data)

\* A tensor index of two substructures holds two buckets, one of them with
\* two different points, and a point the substructures label differently.
TensorCompositeTableWitness ==
    /\ pc = "built" /\ kind = "TensorTop1"
    /\ Len(top1_list) = 2
    /\ Cardinality(DOMAIN tensor_hash_table) >= 2
    /\ \E key \in DOMAIN tensor_hash_table :
          /\ Len(tensor_hash_table[key]) >= 2
          /\ tensor_hash_table[key][1] # tensor_hash_table[key][2]
    /\ \E i \in 1..Len(data) :
          top1_list[1].match_list[i] # top1_list[2].match_list[i]

\* The stored points (counted from 1) within beta of the last query whose
\* direction in every substructure is among that substructure's candidates.
Eligible ==
    { i \in 1..Len(data) :
        /\ FGe(dot_product(last_query, data[i]), ToProduct(beta))
        /\ \A s \in 1..Len(top1_list) :
               (top1_list[s].match_list[i] + 1) \in QualifyingIn(s) }

\* Point i is met before point j: its composite key comes earlier in the
\* product order, or the keys are equal and i is stored first.
MetBefore(i, j) ==
    \/ \E s \in 1..Len(top1_list) :
          /\ top1_list[s].match_list[i] < top1_list[s].match_list[j]
          /\ \A r \in 1..(s - 1) :
                 top1_list[r].match_list[i] = top1_list[r].match_list[j]
    \/ /\ \A s \in 1..Len(top1_list) :
              top1_list[s].match_list[i] = top1_list[s].match_list[j]
       /\ i <= j

FirstEligible == CHOOSE i \in Eligible : \A j \in Eligible : MetBefore(i, j)

\* C14 as stated, on an index built from arguments that meet every condition
\* of check_input.  For a normalized q, the tensor query returns Found if and
\* only if some stored point p has inner(q, p) >= beta and, for every
\* substructure j, match_list_j[p] is in search_j(q); the returned vector is
\* the first such vector met when composite keys are probed in product
\* order and each bucket is scanned in insertion order.
TensorQueryResultAsStated ==
    (TensorAnswered /\ check_input(data, alpha, beta, theta) = Ok) =>
        /\ (outcome.out.tag = "Some") <=> (Eligible # {})
        /\ Eligible # {} => outcome.out = Found(data[FirstEligible])

\* C14, amended.  For a normalized q, the tensor query returns Found if and
\* only if the index has at least one substructure and some stored point p
\* has inner(q, p) >= beta and, for every substructure j, match_list_j[p] is
\* in search_j(q); the returned vector is the first such vector met when
\* composite keys are probed in product order and each bucket is scanned in
\* insertion order.  With no substructure the query returns NotFound.
TensorQueryResult ==
    TensorAnswered =>
        LET found == Len(top1_list) >= 1 /\ Eligible # {}
        IN /\ (outcome.out.tag = "Some") <=> found
           /\ found => outcome.out = Found(data[FirstEligible])
           /\ ~found => outcome.out = NotFound

\* A tensor query of two substructures probed a key without a bucket, and
\* returned a point that is neither the first stored point within beta nor
\* the first of its bucket.
TensorQueryResultWitness ==
    /\ TensorAnswered
    /\ Len(top1_list) = 2
    /\ outcome.out.tag = "Some"
    /\ Len(outcome.probes) >= 2
    /\ outcome.probes[1] \notin DOMAIN tensor_hash_table
    /\ \E i \in 1..Len(data) :
          /\ i < FirstEligible
          /\ FGe(dot_product(last_query, data[i]), ToProduct(beta))
          /\ data[i] # outcome.out.vector

\* C15.  Idempotence: on a built index, any number of repeated queries with
\* the same query vector, interleaved with any other queries, return the
\* same outcome every time.
Idempotence ==
    \A i \in 1..Len(asked) : \A j \in 1..Len(asked) :
        asked[i].q = asked[j].q => asked[i].out = asked[j].out

\* A query that found a vector was repeated after a different query with a
\* different outcome.
IdempotenceWitness ==
    /\ Len(asked) = 3
    /\ asked[1].q = asked[3].q
    /\ asked[1].q # asked[2].q
    /\ asked[1].out.tag = "Some"
    /\ asked[2].out # asked[1].out
    /\ kind = "Top1"

\* C16.  NotFound is never conflated with an error: in every query
\* implementation, Top1::query of top_1.rs included, on an index built from
\* validated input the outcome of a query that is not normalized differs
\* from the NotFound outcome of a normalized query without a qualifying
\* candidate.
NotFoundIsNotAnError ==
    (Answered /\ validation = Ok /\ ~is_normalized(last_query)) =>
        outcome.out # NotFound

\* The last query, on an index of the given kind that was built from input
\* check_input accepted, equals a stored data vector.
SelfQueried(k) ==
    /\ Answered /\ kind = k /\ validation = Ok
    /\ \E i \in 1..Len(data) : data[i] = last_query

\* Found(v) with inner(q, v) >= beta if a direction qualifies, NotFound if
\* none does.
FoundIffCandidate ==
    IF Qualifying(gaussian_vectors, last_query, threshold) # {}
    THEN /\ outcome.out.tag = "Some"
         /\ FGe(dot_product(last_query, outcome.out.vector), ToProduct(beta))
    ELSE outcome.out = NotFound

\* C17.  Self-query on the simple argmax Top1 index built from validated
\* input: for a query equal to a stored data vector, if at least one
\* direction has inner product with the query >= threshold then query
\* returns Found(v) with inner(q, v) >= beta, and if no direction does it
\* returns NotFound.
SelfQueryTop1 == SelfQueried("Top1") => FoundIffCandidate

\* C18.  Self-query on the CloseTop1 index built from validated input: for a
\* query equal to a stored data vector, if at least one direction has inner
\* product with the query >= threshold then query returns Found(v) with
\* inner(q, v) >= beta, and if no direction does it returns NotFound.
SelfQueryCloseTop1 == SelfQueried("CloseTop1") => FoundIffCandidate

\* The outcome of a query run alone on the index.
Alone(q) ==
    IF kind = "TensorTop1"
    THEN tensor_query(q, top1_list, tensor_hash_table, beta).out
    ELSE query(gaussian_vectors, q, threshold, hash_table, beta).out

\* Every query that has returned returned what it would return alone.
ReadersAgreeWithAlone ==
    \A r \in DOMAIN readers :
        readers[r].pc = "done" => readers[r].out = Alone(readers[r].q)

\* C19.  Read-only queries: any number of queries running concurrently on a
\* built Top1, CloseTop1 or TensorTop1, in any interleaving, leave the
\* directions, thresholds, match lists and bucket tables unchanged, and each
\* query returns the outcome it would return if run alone.
ReadOnlyQueries ==
    /\ []ReadersAgreeWithAlone
    /\ [][pc = "built" => UNCHANGED << simple_fields, tensor_fields >>]_vars

\* Two queries are under way at once, one of them past its search and at its
\* second candidate, while another thread has returned a vector.
ReadOnlyQueriesWitness ==
    /\ DOMAIN readers = 1..NumReaders
    /\ \E r \in DOMAIN readers :
          /\ readers[r].pc = "scan" /\ readers[r].k = 2
          /\ \E o \in DOMAIN readers \ {r} :
                 /\ readers[o].pc = "done"
                 /\ readers[o].out.tag = "Some"
                 /\ readers[o].q # readers[r].q

\* C20.  Parallel assignment is deterministic: the list collected from the
\* worker threads is the list of the sequential get_match_list, entry i
\* belonging to data point i, whatever order the threads finished in; and the
\* composite table is filled only after every structure is complete, each
\* bucket listing its points in data order.
ParallelAssignmentDeterministic ==
    /\ \A k \in 1..Len(top1_list) :
          /\ top1_list[k].match_list =
                 get_match_list(data, top1_list[k].gaussian_vectors).list
          /\ \A i \in 1..Len(data) :
                 top1_list[k].match_list[i] =
                     closest_index(data[i], top1_list[k].gaussian_vectors)
    /\ pc # "built" => tensor_hash_table = EmptyTable
    /\ pc = "built" =>
          /\ Len(top1_list) = StructuresWanted
          /\ \A key \in DOMAIN tensor_hash_table :
                 LET points == { i \in 1..Len(data) : CompositeKeyFrom(i, 1) = key }
                 IN /\ points # {}
                    /\ tensor_hash_table[key] =
                           [k \in 1..Cardinality(points) |->
                               data[Ascending(points)[k]]]

\* The index is built; the threads of its last structure finished out of
\* data order, on points with different closest directions, and a bucket of
\* the table holds two different points.
ParallelAssignmentDeterministicWitness ==
    /\ pc = "built"
    /\ Len(top1_list) = 2
    /\ Len(slots) = Len(data)
    /\ \E j \in 1..(Len(slots) - 1) :
          /\ slots[j][1] > slots[j + 1][1]
          /\ slots[j][2] # slots[j + 1][2]
    /\ CollectedByCompletion # top1_list[2].match_list
    /\ \E key \in DOMAIN tensor_hash_table :
          /\ Len(tensor_hash_table[key]) >= 2
          /\ tensor_hash_table[key][1] # tensor_hash_table[key][2]

\* The vectors (counted from 1) that fail a per-vector requirement: the
\* dimension of the first vector, or |sum(v_i^2) - 1| <= 1e-6.
FailingVectors ==
    { i \in 1..Len(data) :
        \/ Len(data[i]) # Len(data[1])
        \/ ~FLe(Deviation(data[i]), Tol) }

\* The first violation in the order alpha, beta, theta, empty dataset, zero
\* dimension, then the vectors by index, dimension before normalization.
FirstViolation ==
    IF ~(FLt(0, alpha) /\ FLt(alpha, Scale)) THEN <<"InvalidAlpha", 0 - 1>>
    ELSE IF ~(FLt(0, beta) /\ FLt(beta, alpha)) THEN <<"InvalidBeta", 0 - 1>>
    ELSE IF ~FGt(theta, 0) THEN <<"InvalidTheta", 0 - 1>>
    ELSE IF Len(data) = 0 THEN <<"EmptyDataset", 0 - 1>>
    ELSE IF Len(data[1]) = 0 THEN <<"ZeroDimension", 0 - 1>>
    ELSE IF FailingVectors = {} THEN <<Ok.kind, Ok.index>>
    ELSE LET i == MinOf(FailingVectors)
         IN IF Len(data[i]) # Len(data[1])
            THEN <<"DimensionMismatch", i - 1>>
            ELSE <<"UnnormalizedVector", i - 1>>

\* C21.  check_input reports only the first violation in a fixed order:
\* alpha, then beta, then theta, then empty dataset, then zero dimension of
\* the first vector, then the vectors in index order, each checked for
\* dimension mismatch before normalization; the reported index is the
\* smallest index of a vector that fails either per-vector check.
CheckInputFirstViolation ==
    pc = "checked" => <<validation.kind, validation.index>> = FirstViolation

\* The number of places of a sequence that hold v.
Occurrences(seq, v) == Cardinality({ k \in 1..Len(seq) : seq[k] = v })

RECURSIVE StoredTimes(_, _, _)
\* The number of places under the given keys of a bucket table that hold v.
StoredTimes(table, keys, v) ==
    IF keys = {} THEN 0
    ELSE LET key == CHOOSE k \in keys : TRUE
         IN Occurrences(table[key], v) + StoredTimes(table, keys \ {key}, v)

\* C22.  Bucket-table partition of the simple argmax Top1 index: with n
\* points and m >= 1 directions, every bucket label is in 0..m-1, no bucket is
\* empty, every data point is in exactly one bucket (a vector is stored as
\* many times as the dataset holds it), and the bucket sizes sum to n.
BucketPartition ==
    (pc = "built" /\ kind = "Top1" /\ Len(gaussian_vectors) >= 1) =>
        /\ DOMAIN hash_table \subseteq 0..(Len(gaussian_vectors) - 1)
        /\ \A key \in DOMAIN hash_table : Len(hash_table[key]) >= 1
        /\ \A i \in 1..Len(data) :
               StoredTimes(hash_table, DOMAIN hash_table, data[i]) =
                   Occurrences(data, data[i])
        /\ TableSize(hash_table, DOMAIN hash_table) = Len(data)

\* A simple index of three points, one of them twice in the dataset, over
\* several directions: two buckets, one with two vectors, and a direction
\* that no point was assigned to.
BucketPartitionWitness ==
    /\ pc = "built" /\ kind = "Top1"
    /\ Len(data) = 3
    /\ \E i \in 1..Len(data) : Occurrences(data, data[i]) = 2
    /\ Cardinality(DOMAIN hash_table) = 2
    /\ \E key \in DOMAIN hash_table : Len(hash_table[key]) >= 2
    /\ \E j \in 0..(Len(gaussian_vectors) - 1) : j \notin DOMAIN hash_table

\* The value of a decimal digit character.
DigitValue(c) == (CHOOSE k \in 1..10 : Digits[k] = c) - 1

RECURSIVE DecimalValue(_)
\* The number a sequence of decimal digits denotes.
DecimalValue(digits) ==
    IF digits = << >> THEN 0
    ELSE DecimalValue(SubSeq(digits, 1, Len(digits) - 1)) * 10
         + DigitValue(digits[Len(digits)])

\* Decimal digits with no superfluous leading zero, then one '#'.
WellFormedLabel(label) ==
    /\ Len(label) >= 2
    /\ label[Len(label)] = "#"
    /\ \A k \in 1..(Len(label) - 1) : \E c \in 1..10 : Digits[c] = label[k]
    /\ Len(label) > 2 => label[1] # "0"

\* The direction index a label "j#" denotes.
DirectionOfLabel(label) == DecimalValue(SubSeq(label, 1, Len(label) - 1))

\* C23.  Tensor base index labels: after Top1::new on n points with m
\* directions, match_list has n entries, each in 0..m-1, and hash(i) is the
\* decimal text of match_list[i] followed by '#'; the labels of search use
\* the same encoding, so a point's label equals a candidate label exactly
\* when the direction indices are equal.
BaseIndexLabels ==
    (pc = "built" /\ kind = "TensorTop1") =>
        \A s \in 1..Len(top1_list) :
            LET top1 == top1_list[s]
                m == Len(top1.gaussian_vectors)
            IN /\ Len(top1.match_list) = Len(data)
               /\ \A i \in 1..Len(data) :
                      /\ top1.match_list[i] \in 0..(m - 1)
                      /\ WellFormedLabel(hash(top1, i - 1))
                      /\ DirectionOfLabel(hash(top1, i - 1)) = top1.match_list[i]
               /\ TensorAnswered =>
                      LET found == outcome.collection[s]
                          wanted == Ascending(QualifyingIn(s))
                      IN /\ Len(found) = Len(wanted)
                         /\ \A c \in 1..Len(found) :
                                /\ WellFormedLabel(found[c])
                                /\ DirectionOfLabel(found[c]) = wanted[c] - 1
                                /\ \A i \in 1..Len(data) :
                                       (hash(top1, i - 1) = found[c])
                                           <=> (top1.match_list[i] = wanted[c] - 1)

\* A query on a tensor index has a candidate label in a substructure of
\* several directions that is the label of one stored point and not of
\* another.
BaseIndexLabelsWitness ==
    /\ TensorAnswered
    /\ \E s \in 1..Len(top1_list) :
          /\ Len(top1_list[s].gaussian_vectors) >= 2
          /\ \E c \in 1..Len(outcome.collection[s]) :
                 \E i, k \in 1..Len(data) :
                    /\ hash(top1_list[s], i - 1) = outcome.collection[s][c]
                    /\ hash(top1_list[s], k - 1) # outcome.collection[s][c]
                    /\ top1_list[s].match_list[k] > 0

\* The direction indices of data point i (counted from 1), one per
\* substructure.
IndexTuple(i) == [s \in 1..Len(top1_list) |-> top1_list[s].match_list[i]]

\* The points (counted from 1) stored under a key of the composite table.
StoredUnder(key) ==
    IF key \in DOMAIN tensor_hash_table
    THEN { i \in 1..Len(data) :
             \E k \in 1..Len(tensor_hash_table[key]) :
                 tensor_hash_table[key][k] = data[i] }
    ELSE {}

\* C24.  Composite keys do not collide: for a fixed number t of
\* substructures, points with different tuples of direction indices are
\* never stored under the same key, and a lookup with a query key returns
\* only points whose per-substructure labels equal the candidate labels the
\* key was made of, component by component.
CompositeKeysDoNotCollide ==
    pc = "keyed" =>
        /\ \A key \in DOMAIN tensor_hash_table :
               \A i, k \in StoredUnder(key) : IndexTuple(i) = IndexTuple(k)
        /\ \A choice \in Choices(outcome.collection) :
               LET key == outcome.candidates[
                              PlaceFrom(outcome.collection, choice, 1) + 1]
               IN \A i \in StoredUnder(key) :
                      \A s \in 1..Len(top1_list) :
                          hash(top1_list[s], i - 1) =
                              outcome.collection[s][choice[s]]

\* Two substructures; the two points have the index tuples (1, 11) and
\* (11, 1), whose digits read the same without delimiters, and a query key
\* made from two candidates per substructure finds the first point only.
CompositeKeysDoNotCollideWitness ==
    /\ pc = "keyed"
    /\ Len(top1_list) = 2
    /\ IndexTuple(1) = <<1, 11>>
    /\ IndexTuple(2) = <<11, 1>>
    /\ \A s \in 1..2 : Len(outcome.collection[s]) = 2
    /\ \E c \in 1..Len(outcome.candidates) :
          StoredUnder(outcome.candidates[c]) = {1}

SingleSubstructureEquivalence ==
    (pc = "built" /\ kind = "Top1 and TensorTop1" /\ asked # << >>) =>
        asked[1].out = outcome.out

\* C27.  Zero substructures: when TensorTop1 is built with t = 0 (as with
\* fast_preprocessing and a single data point, since ln(1) = 0), top1_list is
\* empty, every data point is stored under the empty composite key,
\* cartesian_product of the empty collection is the empty list, and every
\* normalized query returns NotFound, even one equal to the stored point.
ZeroSubstructures ==
    (pc = "built" /\ kind = "TensorTop1") =>
        /\ (fast_preprocessing /\ Len(data) = 1) =>
               NumStructures(Len(data), alpha, fast_preprocessing) = 0
        /\ NumStructures(Len(data), alpha, fast_preprocessing) = 0 =>
               /\ top1_list = << >>
               /\ DOMAIN tensor_hash_table = { << >> }
               /\ tensor_hash_table[<< >>] = data
               /\ TensorAnswered =>
                      /\ outcome.collection = << >>
                      /\ outcome.candidates = << >>
                      /\ outcome.probes = << >>
                      /\ outcome.out = NotFound

\* An index built with fast_preprocessing from one valid point and valid
\* parameters was asked that very point, and answered NotFound.
ZeroSubstructuresWitness ==
    /\ TensorAnswered
    /\ fast_preprocessing
    /\ check_input(data, alpha, beta, theta) = Ok
    /\ data = <<last_query>>
    /\ top1_list = << >>
    /\ outcome.out = NotFound

\* The inner product of the first k coordinates of two vectors, k the length
\* of the shorter one.
PrefixProduct(u, v) ==
    LET k == Min(Len(u), Len(v))
    IN NormSq([i \in 1..k |-> u[i] + v[i]]) \div 2
       - NormSq(SubSeq(u, 1, k)) \div 2 - NormSq(SubSeq(v, 1, k)) \div 2

\* The stored vector v lies where the last query looks: in the bucket of a
\* direction (simple indices), or among the points whose direction in every
\* substructure (tensor index, t >= 1) has a prefix product with the query
\* that reaches the threshold.
ReachedOnPrefix(v) ==
    IF kind = "TensorTop1"
    THEN /\ Len(top1_list) >= 1
         /\ \E i \in 1..Len(data) :
               /\ data[i] = v
               /\ \A s \in 1..Len(top1_list) :
                      FGe(PrefixProduct(last_query,
                              top1_list[s].gaussian_vectors[
                                  top1_list[s].match_list[i] + 1]),
                          top1_list[s].threshold)
    ELSE \E j \in 1..Len(gaussian_vectors) :
            /\ FGe(PrefixProduct(last_query, gaussian_vectors[j]), threshold)
            /\ (j - 1) \in DOMAIN hash_table
            /\ \E k \in 1..Len(hash_table[j - 1]) : hash_table[j - 1][k] = v

\* The last query is normalized, of another length than the vectors of the
\* index, and every number involved is finite.
OtherDimensionAsked ==
    /\ Answered
    /\ is_normalized(last_query)
    /\ validation = Ok
    /\ \A i \in 1..Len(data) : \A k \in 1..Len(data[i]) : IsFinite(data[i][k])
    /\ Len(last_query) # Len(data[1])

\* C28.  Query dimension is not checked: a query that passes the
\* normalization check but whose length differs from the index dimension d
\* is not rejected with an error; its inner products with directions and
\* stored vectors are computed over the common prefix of coordinates only,
\* and the outcome is Found or NotFound on that basis.
QueryDimensionUnchecked ==
    OtherDimensionAsked =>
        /\ outcome.out.tag \in {"Some", "None"}
        /\ outcome.out.tag = "Some" =>
               /\ ReachedOnPrefix(outcome.out.vector)
               /\ PrefixProduct(last_query, outcome.out.vector) >= ToProduct(beta)
        /\ outcome.out.tag = "None" =>
               \A i \in 1..Len(data) :
                   ~(/\ ReachedOnPrefix(data[i])
                     /\ PrefixProduct(last_query, data[i]) >= ToProduct(beta))

\* A query of one coordinate on an index of dimension two returned a stored
\* vector whose second coordinate is not zero.
QueryDimensionUncheckedWitness ==
    /\ OtherDimensionAsked
    /\ Len(last_query) = 1
    /\ outcome.out.tag = "Some"
    /\ outcome.out.vector[2] # 0

\* The thresholds of the built index, each with its number of directions.
ThresholdsBuilt ==
    IF kind = "TensorTop1"
    THEN { <<Len(top1_list[s].gaussian_vectors), top1_list[s].threshold>> :
               s \in 1..Len(top1_list) }
    ELSE { <<Len(gaussian_vectors), threshold>> }

\* C29.  Undefined threshold for tiny m: when the number of directions m is
\* 1 or 2, get_threshold yields NaN, every comparison inner >= threshold is
\* false, search returns the empty set for every query, and query returns
\* NotFound for every normalized query; for m >= 3 the threshold is a real
\* number.  Stated of the indices built over datasets of unit vectors.
UndefinedThresholdForTinyM ==
    (pc = "built" /\ kind \in Kinds /\ data \in ValidDatasets) =>
        \A built \in ThresholdsBuilt :
            /\ built[1] \in {1, 2} =>
                   /\ IsNaN(built[2])
                   /\ (Answered /\ is_normalized(last_query)) =>
                          /\ outcome.candidates = << >>
                          /\ outcome.out = NotFound
            /\ built[1] >= 3 => IsFinite(built[2])

====
